---- MODULE Spec2Model ----
(***************************************************************************)
(* State-machine model of axaremote/axaremote.py: the AXARemote command    *)
(* channel (_send_command), the response parser (_split_response), the     *)
(* time based status/position estimator (_update) and the public           *)
(* operations, as instantiated by AXARemoteSerial.                         *)
(*                                                                         *)
(* Strings are sequences of atoms: a word (a run of non-blank characters)  *)
(* or one blank character.  Optional values are sequences of length 0      *)
(* (None) or 1.  Time is counted in whole seconds; positions are stored    *)
(* multiplied by PosScale so that every division of _update is exact.      *)
(***************************************************************************)
EXTENDS Integers, Sequences, FiniteSets, TLC

\* ---------------------------------------------------------------- bounds
\* Last clock value of the long-running environment.
MaxTime == 60
\* Last clock value of the environments with faults or two callers.
MaxTimeShort == 1

\* ------------------------------------------------------ program constants
RAW_STATUS_OK == 200
RAW_STATUS_UNLOCKED == 210
RAW_STATUS_STRONG_LOCKED == 211
RAW_STATUS_WEAK_LOCKED == 212
RAW_STATUS_DEVICE == 260
RAW_STATUS_VERSION == 261
RAW_STATUS_COMMAND_NOT_IMPLEMENTED == 502

STATUS_DISCONNECTED == -1
STATUS_STOPPED == 0
STATUS_LOCKED == 1
STATUS_UNLOCKING == 2
STATUS_OPENING == 3
STATUS_OPEN == 4
STATUS_CLOSING == 5
STATUS_LOCKING == 6

_TIME_UNLOCK == 5
_TIME_OPEN == 42
_TIME_CLOSE == _TIME_OPEN
_TIME_LOCK == 16

\* A stored position is the float of the source multiplied by PosScale.
PosScale == _TIME_UNLOCK * _TIME_OPEN * _TIME_LOCK
Pos(percent) == percent * PosScale

None == <<>>
Some(v) == <<v>>

\* ------------------------------------------------------------- strings
WS == {" ", "\r", "\n"}
linesep == "\n"
\* A byte that is not valid text: bytes.decode() fails on a line holding it.
BadByte == "<0xff>"

RECURSIVE LStrip(_)
LStrip(s) == IF s # <<>> /\ Head(s) \in WS THEN LStrip(Tail(s)) ELSE s

RECURSIVE RStrip(_)
RStrip(s) ==
    IF s # <<>> /\ s[Len(s)] \in WS THEN RStrip(SubSeq(s, 1, Len(s) - 1)) ELSE s

\* str.strip()
Strip(s) == RStrip(LStrip(s))

\* bytes.decode() succeeds
Decodable(line) == \A i \in DOMAIN line : line[i] # BadByte

\* linesep.join(lines)
RECURSIVE Join(_)
Join(lines) ==
    IF Len(lines) = 0 THEN <<>>
    ELSE IF Len(lines) = 1 THEN lines[1]
    ELSE lines[1] \o <<linesep>> \o Join(Tail(lines))

\* str.upper() on the command words
Upper(command) ==
    CASE command = "open" -> "OPEN"
      [] command = "close" -> "CLOSE"
      [] command = "stop" -> "STOP"
      [] command = "status" -> "STATUS"
      [] command = "device" -> "DEVICE"
      [] command = "version" -> "VERSION"
      [] OTHER -> command

\* Index of the first blank atom of s, Len(s) + 1 when there is none.
RECURSIVE FirstWS(_, _)
FirstWS(s, i) ==
    IF i > Len(s) THEN i ELSE IF s[i] \in WS THEN i ELSE FirstWS(s, i + 1)

\* str.split(maxsplit=1): at most two parts, blanks around the first part and
\* before the second one dropped, the second part kept as it is.
Split(s) ==
    LET a == LStrip(s) IN
    IF a = <<>> THEN <<>>
    ELSE LET k == FirstWS(a, 1)
             rem == LStrip(SubSeq(a, k, Len(a)))
         IN  IF rem = <<>> THEN <<SubSeq(a, 1, k - 1)>>
             ELSE <<SubSeq(a, 1, k - 1), rem>>

\* int(word): Some(n), or None where int() raises ValueError.
ParseInt(word) ==
    IF Len(word) # 1 THEN None
    ELSE CASE word[1] = "200" -> Some(200)
           [] word[1] = "210" -> Some(210)
           [] word[1] = "211" -> Some(211)
           [] word[1] = "212" -> Some(212)
           [] word[1] = "260" -> Some(260)
           [] word[1] = "261" -> Some(261)
           [] word[1] = "502" -> Some(502)
           [] OTHER -> None

\* The part of _send_command after readlines(): decode, strip, check the
\* echo, join.  raw is the list of byte lines; the result is None or Some(str).
SendCommandResult(command, raw) ==
    IF \E i \in DOMAIN raw : ~Decodable(raw[i]) THEN None
    ELSE LET response == [i \in 1..Len(raw) |-> Strip(raw[i])] IN
         IF Len(response) = 0 THEN None
         ELSE IF response[1] # <<Upper(command)>> THEN None
         ELSE LET rest == Tail(response)
                  joined == IF Len(rest) = 1 THEN rest[1] ELSE Join(rest)
              IN  IF joined = <<>> THEN None ELSE Some(joined)

\* _split_response: exc names the exception raised ("" for none); code and msg
\* are the two elements of the returned pair.
_split_response(response) ==
    IF response # None /\ Len(Split(response[1])) = 2
    THEN LET result == Split(response[1]) IN
         IF ParseInt(result[1]) = None
         THEN [exc |-> "ValueError", code |-> None, msg |-> None]
         ELSE [exc |-> "", code |-> ParseInt(result[1]), msg |-> Some(result[2])]
    ELSE [exc |-> "", code |-> None, msg |-> response]

\* ------------------------------------------------------------ estimator
Stable == {STATUS_DISCONNECTED, STATUS_LOCKED, STATUS_STOPPED, STATUS_OPEN}
Moving == {STATUS_UNLOCKING, STATUS_OPENING, STATUS_CLOSING, STATUS_LOCKING}

\* line 228: if time_passed < self._TIME_UNLOCK
StillUnlocking(time_passed) == time_passed < _TIME_UNLOCK
\* line 229
PosUnlocking(time_passed) == (time_passed * Pos(100)) \div _TIME_UNLOCK
\* lines 233-235
PosOpening(time_passed) == ((time_passed - _TIME_UNLOCK) * Pos(100)) \div _TIME_OPEN
\* As OpenDone, with the comparison of line 236 written >=.
OpenDone_Inclusive(time_passed) == time_passed >= _TIME_UNLOCK + _TIME_OPEN
\* line 236: if time_passed > (self._TIME_UNLOCK + self._TIME_OPEN)
OpenDone(time_passed) == time_passed > _TIME_UNLOCK + _TIME_OPEN
\* As StillClosing, with the comparison of line 241 written <=.
StillClosing_Inclusive(time_passed) == time_passed <= _TIME_CLOSE
\* line 241: if time_passed < self._TIME_CLOSE
StillClosing(time_passed) == time_passed < _TIME_CLOSE
\* line 242
PosClosing(time_passed) == Pos(100) - ((time_passed * Pos(100)) \div _TIME_CLOSE)
\* lines 246-248
PosLocking(time_passed) ==
    Pos(100) - (((time_passed - _TIME_CLOSE) * Pos(100)) \div _TIME_LOCK)
\* line 249: if time_passed > (self._TIME_CLOSE + self._TIME_LOCK)
LockDone(time_passed) == time_passed > _TIME_CLOSE + _TIME_LOCK

\* ---------------------------------------------------------- environment
Threads == {1, 2}

\* What readlines() can hand back for a command, by kind of reply.
EOL == <<"\r", "\n">>
Echo(command) == <<command>> \o EOL
Reply(kind, command) ==
    CASE kind = "empty" -> <<>>
      [] kind = "noecho" -> << <<"210", " ", "UnLocked">> \o EOL >>
      [] kind = "echo" -> << Echo(command) >>
      [] kind = "ok" -> << Echo(command), <<"200", " ", "OK">> \o EOL >>
      [] kind = "unlocked" -> << Echo(command), <<"210", " ", "UnLocked">> \o EOL >>
      [] kind = "strong" ->
            << Echo(command), <<"211", " ", "Strong", " ", "Locked">> \o EOL >>
      [] kind = "weak" ->
            << Echo(command), <<"212", " ", "Weak", " ", "Locked">> \o EOL >>
      [] kind = "device" ->
            << Echo(command), <<"260", " ", "AXA", " ", "RV2900", " ", "2.0">> \o EOL >>
      [] kind = "version" ->
            << Echo(command), <<"261", " ", "Firmware", " ", "V1.20">> \o EOL >>
      [] kind = "version1" -> << Echo(command), <<"261", " ", "V1.20">> \o EOL >>
      [] kind = "notimpl" ->
            << Echo(command), <<"502", " ", "Command", " ", "not", " ", "implemented">> \o EOL >>
      [] kind = "text" -> << Echo(command), <<"Unknown", " ", "command">> \o EOL >>
      [] kind = "word" -> << Echo(command), <<"211">> \o EOL >>
      [] kind = "blank2" -> << Echo(command), EOL, EOL >>
      [] kind = "baddata" -> << Echo(command), <<BadByte>> \o EOL >>

AllReplies == {"empty", "noecho", "echo", "ok", "unlocked", "strong", "weak",
               "device", "version", "version1", "notimpl", "text", "word",
               "blank2", "baddata"}
NominalReplies == {"ok", "unlocked", "strong"}
ConcReplies == {"empty", "noecho", "ok", "strong"}

AllOps == {"set_position", "connect", "disconnect", "open", "stop", "close",
           "raw_status", "sync_status", "status", "position"}

\* Arguments tried for set_position, in percent.
SeedPositions == {-1, 0, 50, 100, 101}

\* One caller, an unreliable link and device.
EnvFaulty == [callers |-> {1}, horizon |-> MaxTimeShort, replies |-> AllReplies,
              opens |-> BOOLEAN, raises |-> BOOLEAN, seeds |-> SeedPositions,
              ops |-> [t \in Threads |-> AllOps]]
\* One caller, a link and a device that work, a long time span.
EnvNominal == [callers |-> {1}, horizon |-> MaxTime, replies |-> NominalReplies,
               opens |-> {TRUE}, raises |-> {FALSE}, seeds |-> {0, 50, 100},
               ops |-> [t \in Threads |-> AllOps]]
\* Two callers (threads) on the same instance: the first one may call every
\* operation, the second one reads, polls the device or disconnects.
EnvConc == [callers |-> {1, 2}, horizon |-> MaxTimeShort, replies |-> ConcReplies,
            opens |-> {TRUE}, raises |-> {FALSE}, seeds |-> {50},
            ops |-> [t \in Threads |->
                       IF t = 1 THEN AllOps
                       ELSE {"status", "position", "raw_status", "disconnect"}]]

\* The instants at which the clock is looked at, up to the horizon h: the
\* start, one second later, and the last second before and the first second
\* after every phase change of _update.
Instants(h) ==
    {i \in 0..h : i \in {0, 1,
                         _TIME_UNLOCK - 1, _TIME_UNLOCK,
                         _TIME_CLOSE - 1, _TIME_CLOSE,
                         _TIME_UNLOCK + _TIME_OPEN, _TIME_UNLOCK + _TIME_OPEN + 1,
                         _TIME_CLOSE + _TIME_LOCK, _TIME_CLOSE + _TIME_LOCK + 1}}
    \cup {h}

\* -------------------------------------------------------------- state
VARIABLES
    _connection,  \* None or Some("connection")
    _busy,
    device, version,
    _status, _position, _timestamp,
    now,          \* time.time()
    th,           \* per caller: where it is in its call and its locals
    ret,          \* the result of the last call, at this instant, for a
                  \* single caller
    lastOp,       \* what last set the estimator going, for a single caller:
                  \* <<"set_position", p>>, <<"open">> (from Locked, code 200),
                  \* <<"close">> (from Open, code 200); <<"none">> after any
                  \* other operation that can change the state
    stopped,      \* for a single caller: stop() has returned True in a
                  \* moving phase, and no operation of Mutators has ended since
    env

vars == <<_connection, _busy, device, version, _status, _position, _timestamp,
          now, th, ret, lastOp, stopped, env>>

Idle == [pc |-> "idle", op |-> "", command |-> "", stack |-> <<>>, rv |-> None,
         time_passed |-> 0, at |-> 0, io |-> <<>>, wrote |-> <<>>, note |-> <<>>]
NoRet == [op |-> "", kind |-> "", val |-> None, at |-> 0, io |-> <<>>, wrote |-> <<>>]

\* Class attributes, lines 54-69
InitState(e) ==
    /\ _connection = None
    /\ _busy = FALSE
    /\ device = None
    /\ version = None
    /\ _status = STATUS_DISCONNECTED
    /\ _position = Pos(0)
    /\ _timestamp = None
    /\ now = 0
    /\ th = [t \in Threads |-> Idle]
    /\ ret = [t \in Threads |-> NoRet]
    /\ lastOp = <<"none">>
    /\ stopped = FALSE
    /\ env = e

Init == InitState(EnvFaulty)
InitTimed == InitState(EnvNominal)
InitConc == InitState(EnvConc)

SingleCaller == Cardinality(env.callers) = 1

Mutators == {"set_position", "connect", "disconnect", "open", "close", "sync_status"}
Reads == {"status", "position"}

\* ------------------------------------------------------ call and return
\* A caller that is idle starts operation o at label pc0.
Start(t, o, pc0, command, stack) ==
    /\ t \in env.callers /\ o \in env.ops[t]
    /\ th[t].pc = "idle"
    /\ th' = [th EXCEPT ![t] = [Idle EXCEPT !.op = o, !.pc = pc0,
                                            !.command = command, !.stack = stack]]
    /\ ret' = [ret EXCEPT ![t] = NoRet]
    /\ UNCHANGED <<lastOp, stopped>>

Finished(t, l, kind, v) ==
    /\ th' = [th EXCEPT ![t] = Idle]
    /\ ret' = IF SingleCaller
              THEN [ret EXCEPT ![t] =
                      [op |-> l.op, kind |-> kind, val |-> v,
                       at |-> IF l.op \in Reads THEN l.at ELSE now,
                       io |-> l.io, wrote |-> l.wrote]]
              ELSE ret
    /\ lastOp' = IF l.op \in Mutators /\ SingleCaller
                 THEN (IF l.note = <<>> THEN <<"none">> ELSE l.note)
                 ELSE lastOp
    /\ stopped' = IF ~SingleCaller THEN stopped
                  ELSE IF l.op \in Mutators THEN FALSE
                  ELSE IF l.op = "stop" /\ kind = "return" /\ _status \in Moving
                  THEN (v \/ stopped)
                  ELSE stopped

\* return v, with l the locals of the caller t at that point
Return(t, l, v) ==
    IF l.stack = <<>>
    THEN Finished(t, l, "return", v)
    ELSE /\ th' = [th EXCEPT ![t] = [l EXCEPT !.pc = Head(l.stack),
                                              !.stack = Tail(l.stack), !.rv = v]]
         /\ UNCHANGED <<ret, lastOp, stopped>>

\* raise e: no frame of the class catches it, it reaches the caller
Raise(t, l, e) == Finished(t, l, "raise", e)

\* Continue in the same frame.
Goto(t, l, pc) ==
    /\ th' = [th EXCEPT ![t] = [l EXCEPT !.pc = pc]]
    /\ UNCHANGED <<ret, lastOp, stopped>>

\* Call _send_command(command), returning to label back.
CallSend(t, l, command, back) ==
    Goto(t, [l EXCEPT !.command = command, !.stack = <<back>> \o l.stack,
                      !.rv = None, !.io = <<>>], "s143")

At(t, pc) == t \in env.callers /\ th[t].pc = pc

\* --------------------------------------------------------- operations
\* As StatusFor, with the test of line 85 dropped.
StatusFor_NoOpen(position) ==
    IF position = 0 THEN STATUS_LOCKED ELSE STATUS_STOPPED
\* lines 83-88: the status that goes with a seeded position, in percent
StatusFor(position) ==
    IF position = 0 THEN STATUS_LOCKED
    ELSE IF position = 100 THEN STATUS_OPEN
    ELSE STATUS_STOPPED

\* set_position(position), lines 71-88; position in percent
set_position(t, position) ==
    /\ t \in env.callers /\ th[t].pc = "idle" /\ "set_position" \in env.ops[t]
    /\ position \in env.seeds
    /\ LET l == [Idle EXCEPT !.op = "set_position",
                              !.note = <<"set_position", position>>] IN
       IF ~(0 <= position /\ position <= 100)
       THEN \* the assert of line 79 fails before anything is assigned
            /\ ret' = IF SingleCaller
                      THEN [ret EXCEPT ![t] = [NoRet EXCEPT !.op = "set_position",
                              !.kind = "raise", !.val = "AssertionError", !.at = now]]
                      ELSE ret
            /\ UNCHANGED <<_position, _status, th, lastOp, stopped>>
       ELSE /\ _position' = Pos(position)
            /\ _status' = StatusFor(position)
            /\ Return(t, l, None)
    /\ UNCHANGED <<_connection, _busy, device, version, _timestamp, now, env>>

\* AXARemoteSerial._connect, lines 370-383: ok is what connection.open() says
_connect(ok) ==
    /\ ok \in env.opens
    /\ _connection' = IF _connection = None /\ ok THEN Some("connection")
                      ELSE _connection

\* disconnect(), lines 128-136
disconnect(t) ==
    /\ t \in env.callers /\ th[t].pc = "idle" /\ "disconnect" \in env.ops[t]
    /\ _connection' = None
    /\ Return(t, [Idle EXCEPT !.op = "disconnect"], TRUE)
    /\ UNCHANGED <<_busy, device, version, _status, _position, _timestamp, now, env>>

\* The callers enter the operations that take several steps.
connect(t) ==
    /\ Start(t, "connect", "n98", "", <<>>)
    /\ UNCHANGED <<_connection, _busy, device, version, _status, _position,
                   _timestamp, now, env>>
open(t) ==
    /\ Start(t, "open", "s143", "OPEN", <<"o258">>)
    /\ UNCHANGED <<_connection, _busy, device, version, _status, _position,
                   _timestamp, now, env>>
stop(t) ==
    /\ Start(t, "stop", "s143", "STOP", <<"p276">>)
    /\ UNCHANGED <<_connection, _busy, device, version, _status, _position,
                   _timestamp, now, env>>
close(t) ==
    /\ Start(t, "close", "s143", "CLOSE", <<"c288">>)
    /\ UNCHANGED <<_connection, _busy, device, version, _status, _position,
                   _timestamp, now, env>>
\* As raw_status, with VERSION sent in place of STATUS.
raw_status_AsksVersion(t) ==
    /\ Start(t, "raw_status", "s143", "VERSION", <<"r306">>)
    /\ UNCHANGED <<_connection, _busy, device, version, _status, _position,
                   _timestamp, now, env>>
raw_status(t) ==
    /\ Start(t, "raw_status", "s143", "STATUS", <<"r306">>)
    /\ UNCHANGED <<_connection, _busy, device, version, _status, _position,
                   _timestamp, now, env>>
sync_status(t) ==
    /\ Start(t, "sync_status", "y314", "", <<>>)
    /\ UNCHANGED <<_connection, _busy, device, version, _status, _position,
                   _timestamp, now, env>>
status(t) ==
    /\ Start(t, "status", "u217", "", <<>>)
    /\ UNCHANGED <<_connection, _busy, device, version, _status, _position,
                   _timestamp, now, env>>
position(t) ==
    /\ Start(t, "position", "u217", "", <<>>)
    /\ UNCHANGED <<_connection, _busy, device, version, _status, _position,
                   _timestamp, now, env>>

\* ---- _send_command, lines 138-201, in AXARemoteSerial._send_command
\* As BusyAfter, with the release of line 199 skipped when the command ends
\* without a response.
BusyAfter_NoFinally(outcome) == outcome = None
\* lines 198-199: the value of _busy when the try statement is left with
\* outcome (None, Some(response) or the name of an exception)
BusyAfter(outcome) == FALSE

\* lines 143-145
Send143(t) ==
    /\ At(t, "s143")
    /\ \E ok \in BOOLEAN :
         /\ _connect(ok)
         /\ IF ok THEN Goto(t, th[t], "s147")
            ELSE Return(t, [th[t] EXCEPT !.io = <<"unavailable">>], None)
    /\ UNCHANGED <<_busy, device, version, _status, _position, _timestamp, now, env>>

\* line 147: the loop is left when the flag is seen False
Send147(t) ==
    /\ At(t, "s147")
    /\ _busy = FALSE
    /\ Goto(t, th[t], "s150")
    /\ UNCHANGED <<_connection, _busy, device, version, _status, _position,
                   _timestamp, now, env>>

\* line 150
Send150(t) ==
    /\ At(t, "s150")
    /\ _busy' = TRUE
    /\ Goto(t, th[t], "s155")
    /\ UNCHANGED <<_connection, device, version, _status, _position,
                   _timestamp, now, env>>

\* lines 155-162: reset, blank line, readline, command, flush.  With the
\* handle cleared the attribute access fails; a SerialException is caught
\* at line 390.  Both leave through the finally clause of line 199.
Send155(t) ==
    /\ At(t, "s155")
    /\ IF _connection = None
       THEN /\ _busy' = BusyAfter(<<"AttributeError">>)
            /\ Raise(t, th[t], "AttributeError")
       ELSE \E failed \in env.raises :
              IF failed
              THEN /\ _busy' = BusyAfter(<<"SerialException">>)
                   /\ Return(t, [th[t] EXCEPT !.io = <<"exception">>], None)
              ELSE /\ _busy' = _busy
                   /\ Goto(t, [th[t] EXCEPT !.wrote = Append(@, Upper(th[t].command))],
                           "s164")
    /\ UNCHANGED <<_connection, device, version, _status, _position,
                   _timestamp, now, env>>

\* lines 164-201: readlines, the checks of the response, the release
Send164(t) ==
    /\ At(t, "s164")
    /\ IF _connection = None
       THEN /\ _busy' = BusyAfter(<<"AttributeError">>)
            /\ Raise(t, th[t], "AttributeError")
       ELSE \/ \E kind \in env.replies :
                 LET raw == Reply(kind, Upper(th[t].command))
                     response == SendCommandResult(th[t].command, raw)
                 IN  /\ _busy' = BusyAfter(response)
                     /\ Return(t, [th[t] EXCEPT !.io = <<"lines", raw>>], response)
            \/ /\ TRUE \in env.raises
               /\ _busy' = BusyAfter(<<"SerialException">>)
               /\ Return(t, [th[t] EXCEPT !.io = <<"exception">>], None)
    /\ UNCHANGED <<_connection, device, version, _status, _position,
                   _timestamp, now, env>>

\* As Open258, with the status and the timestamp assigned before the code of
\* the response is tested.
Open258_EarlyWrite(t) ==
    /\ At(t, "o258")
    /\ LET response == _split_response(th[t].rv)
           ok == response.exc = "" /\ response.code = Some(RAW_STATUS_OK)
           l == [th[t] EXCEPT !.note = IF ok /\ _status = STATUS_LOCKED
                                       THEN <<"open">> ELSE <<>>]
       IN  IF response.exc # ""
           THEN Raise(t, l, response.exc) /\ UNCHANGED <<_status, _timestamp>>
           ELSE /\ _timestamp' = IF _status = STATUS_LOCKED THEN Some(now)
                                 ELSE _timestamp
                /\ _status' = IF _status = STATUS_LOCKED THEN STATUS_UNLOCKING
                              ELSE IF _status = STATUS_STOPPED THEN STATUS_OPENING
                              ELSE _status
                /\ Return(t, l, ok)
    /\ UNCHANGED <<_connection, _busy, device, version, _position, now, env>>
\* ---- open(), lines 257-268
Open258(t) ==
    /\ At(t, "o258")
    /\ LET response == _split_response(th[t].rv)
           ok == response.exc = "" /\ response.code = Some(RAW_STATUS_OK)
           l == [th[t] EXCEPT !.note = IF ok /\ _status = STATUS_LOCKED
                                       THEN <<"open">> ELSE <<>>]
       IN  IF response.exc # ""
           THEN Raise(t, l, response.exc) /\ UNCHANGED <<_status, _timestamp>>
           ELSE IF ok
           THEN /\ _timestamp' = IF _status = STATUS_LOCKED THEN Some(now)
                                 ELSE _timestamp
                /\ _status' = IF _status = STATUS_LOCKED THEN STATUS_UNLOCKING
                              ELSE IF _status = STATUS_STOPPED THEN STATUS_OPENING
                              ELSE _status
                /\ Return(t, l, TRUE)
           ELSE Return(t, l, FALSE) /\ UNCHANGED <<_status, _timestamp>>
    /\ UNCHANGED <<_connection, _busy, device, version, _position, now, env>>

\* ---- stop(), lines 275-281
Stop276(t) ==
    /\ At(t, "p276")
    /\ LET response == _split_response(th[t].rv) IN
       IF response.exc # "" THEN Raise(t, th[t], response.exc)
       ELSE Return(t, th[t], response.code = Some(RAW_STATUS_OK))
    /\ UNCHANGED <<_connection, _busy, device, version, _status, _position,
                   _timestamp, now, env>>

\* ---- close(), lines 287-299
Close288(t) ==
    /\ At(t, "c288")
    /\ LET response == _split_response(th[t].rv)
           ok == response.exc = "" /\ response.code = Some(RAW_STATUS_OK)
           l == [th[t] EXCEPT !.note = IF ok /\ _status = STATUS_OPEN
                                       THEN <<"close">> ELSE <<>>]
       IN  IF response.exc # ""
           THEN Raise(t, l, response.exc) /\ UNCHANGED <<_status, _timestamp>>
           ELSE IF ok
           THEN /\ _timestamp' = IF _status = STATUS_OPEN THEN Some(now)
                                 ELSE _timestamp
                /\ _status' = IF _status \in {STATUS_OPEN, STATUS_STOPPED}
                              THEN STATUS_CLOSING ELSE _status
                /\ Return(t, l, TRUE)
           ELSE Return(t, l, FALSE) /\ UNCHANGED <<_status, _timestamp>>
    /\ UNCHANGED <<_connection, _busy, device, version, _position, now, env>>

\* ---- raw_status(), lines 305-308: returns the pair of _split_response
RawStatus306(t) ==
    /\ At(t, "r306")
    /\ LET response == _split_response(th[t].rv) IN
       IF response.exc # "" THEN Raise(t, th[t], response.exc)
       ELSE Return(t, th[t], <<response.code, response.msg>>)
    /\ UNCHANGED <<_connection, _busy, device, version, _status, _position,
                   _timestamp, now, env>>

\* ---- connect(), lines 94-126
\* line 98
Connect98(t) ==
    /\ At(t, "n98")
    /\ \E ok \in BOOLEAN :
         /\ _connect(ok)
         /\ IF ok THEN CallSend(t, th[t], "DEVICE", "n102")
            ELSE Return(t, th[t], FALSE)
    /\ UNCHANGED <<_busy, device, version, _status, _position, _timestamp, now, env>>

\* lines 102-109, with the response to DEVICE in rv
Connect102(t) ==
    /\ At(t, "n102")
    /\ IF th[t].rv = None
       THEN Return(t, th[t], FALSE) /\ UNCHANGED device
       ELSE LET response == _split_response(th[t].rv) IN
            IF response.exc # ""
            THEN Raise(t, th[t], response.exc) /\ UNCHANGED device
            ELSE /\ device' = IF response.code = Some(RAW_STATUS_DEVICE)
                              THEN response.msg ELSE device
                 /\ CallSend(t, th[t], "VERSION", "n110")
    /\ UNCHANGED <<_connection, _busy, version, _status, _position, _timestamp,
                   now, env>>

\* lines 110-114, with the response to VERSION in rv; then raw_status()
Connect110(t) ==
    /\ At(t, "n110")
    /\ LET response == _split_response(th[t].rv) IN
       IF response.exc # ""
       THEN Raise(t, th[t], response.exc) /\ UNCHANGED version
       ELSE IF response.code = Some(RAW_STATUS_VERSION)
                 /\ Len(Split(response.msg[1])) < 2
       THEN Raise(t, th[t], "IndexError") /\ UNCHANGED version
       ELSE /\ version' = IF response.code = Some(RAW_STATUS_VERSION)
                          THEN Some(Split(response.msg[1])[2]) ELSE version
            /\ Goto(t, [th[t] EXCEPT !.command = "STATUS", !.rv = None, !.io = <<>>,
                                     !.stack = <<"r306", "n115">> \o @], "s143")
    /\ UNCHANGED <<_connection, _busy, device, _status, _position, _timestamp,
                   now, env>>

\* As Connect115, with only the strong lock taken for locked at line 118.
Connect115_StrongOnly(t) ==
    /\ At(t, "n115")
    /\ LET locked == th[t].rv[1] = Some(RAW_STATUS_STRONG_LOCKED) IN
         /\ _status' = IF locked THEN STATUS_LOCKED ELSE STATUS_OPEN
         /\ _position' = IF locked THEN Pos(0) ELSE Pos(100)
    /\ Return(t, th[t], TRUE)
    /\ UNCHANGED <<_connection, _busy, device, version, _timestamp, now, env>>
\* lines 115-126, with the pair of raw_status() in rv
Connect115(t) ==
    /\ At(t, "n115")
    /\ LET locked == th[t].rv[1] \in {Some(RAW_STATUS_STRONG_LOCKED),
                                      Some(RAW_STATUS_WEAK_LOCKED)} IN
         /\ _status' = IF locked THEN STATUS_LOCKED ELSE STATUS_OPEN
         /\ _position' = IF locked THEN Pos(0) ELSE Pos(100)
    /\ Return(t, th[t], TRUE)
    /\ UNCHANGED <<_connection, _busy, device, version, _timestamp, now, env>>

\* ---- sync_status(), lines 310-337
\* line 314, first operand: connect() is called only when Disconnected
Sync314(t) ==
    /\ At(t, "y314")
    /\ IF _status = STATUS_DISCONNECTED
       THEN Goto(t, [th[t] EXCEPT !.stack = <<"y316">> \o @], "n98")
       ELSE Goto(t, [th[t] EXCEPT !.command = "STATUS", !.rv = None, !.io = <<>>,
                                  !.stack = <<"r306", "y319">> \o @], "s143")
    /\ UNCHANGED <<_connection, _busy, device, version, _status, _position,
                   _timestamp, now, env>>

\* lines 314-318, with the result of connect() in rv
Sync316(t) ==
    /\ At(t, "y316")
    /\ IF th[t].rv = FALSE
       THEN Return(t, th[t], None)
       ELSE Goto(t, [th[t] EXCEPT !.command = "STATUS", !.rv = None, !.io = <<>>,
                                  !.stack = <<"r306", "y319">> \o @], "s143")
    /\ UNCHANGED <<_connection, _busy, device, version, _status, _position,
                   _timestamp, now, env>>

\* As Sync319, with the test of the presumed status dropped at line 331.
Sync319_AnyUnlocked(t) ==
    /\ At(t, "y319")
    /\ LET raw_state == th[t].rv IN
       IF raw_state[1] = None
       THEN /\ _status' = STATUS_DISCONNECTED
            /\ UNCHANGED _position
       ELSE IF raw_state[1] = Some(RAW_STATUS_STRONG_LOCKED)
                 /\ _status # STATUS_LOCKED
       THEN /\ _status' = STATUS_LOCKED
            /\ _position' = Pos(0)
       ELSE IF raw_state[1] = Some(RAW_STATUS_UNLOCKED)
       THEN /\ _status' = STATUS_OPEN
            /\ _position' = Pos(100)
       ELSE UNCHANGED <<_status, _position>>
    /\ Return(t, th[t], None)
    /\ UNCHANGED <<_connection, _busy, device, version, _timestamp, now, env>>
\* lines 319-337, with the pair of raw_status() in rv
Sync319(t) ==
    /\ At(t, "y319")
    /\ LET raw_state == th[t].rv IN
       IF raw_state[1] = None
       THEN /\ _status' = STATUS_DISCONNECTED
            /\ UNCHANGED _position
       ELSE IF raw_state[1] = Some(RAW_STATUS_STRONG_LOCKED)
                 /\ _status # STATUS_LOCKED
       THEN /\ _status' = STATUS_LOCKED
            /\ _position' = Pos(0)
       ELSE IF raw_state[1] = Some(RAW_STATUS_UNLOCKED) /\ _status = STATUS_LOCKED
       THEN /\ _status' = STATUS_OPEN
            /\ _position' = Pos(100)
       ELSE UNCHANGED <<_status, _position>>
    /\ Return(t, th[t], None)
    /\ UNCHANGED <<_connection, _busy, device, version, _timestamp, now, env>>

\* ---- _update(), lines 212-251, inside status() and position()
\* What status() or position() returns when _update leaves st and pos behind.
ReadResult(o, st, pos) == IF o = "status" THEN st ELSE pos

\* lines 217-226
Update217(t) ==
    /\ At(t, "u217")
    /\ LET l == [th[t] EXCEPT !.at = now] IN
       IF _status \in Stable
       THEN Return(t, l, ReadResult(l.op, _status, _position))
       ELSE IF _timestamp = None
       THEN Raise(t, l, "TypeError")
       ELSE Goto(t, [l EXCEPT !.time_passed = now - _timestamp[1]], "u227")
    /\ UNCHANGED <<_connection, _busy, device, version, _status, _position,
                   _timestamp, now, env>>

\* The four tests of self._status, lines 227, 232, 240 and 245
UpdateTest(t) ==
    /\ t \in env.callers
    /\ th[t].pc \in {"u227", "u232", "u240", "u245"}
    /\ LET pc == th[t].pc
           phase == CASE pc = "u227" -> STATUS_UNLOCKING
                      [] pc = "u232" -> STATUS_OPENING
                      [] pc = "u240" -> STATUS_CLOSING
                      [] pc = "u245" -> STATUS_LOCKING
           body == CASE pc = "u227" -> "u228" [] pc = "u232" -> "u233"
                     [] pc = "u240" -> "u241" [] pc = "u245" -> "u246"
           next == CASE pc = "u227" -> "u232" [] pc = "u232" -> "u240"
                     [] pc = "u240" -> "u245" [] pc = "u245" -> "end"
       IN  IF _status = phase THEN Goto(t, th[t], body)
           ELSE IF next = "end"
           THEN Return(t, th[t], ReadResult(th[t].op, _status, _position))
           ELSE Goto(t, th[t], next)
    /\ UNCHANGED <<_connection, _busy, device, version, _status, _position,
                   _timestamp, now, env>>

\* The four bodies, lines 228-231, 233-238, 241-244 and 246-251
UpdateBody(t) ==
    /\ t \in env.callers
    /\ th[t].pc \in {"u228", "u233", "u241", "u246"}
    /\ LET pc == th[t].pc
           time_passed == th[t].time_passed
           st == CASE pc = "u228" ->
                        IF StillUnlocking(time_passed) THEN _status ELSE STATUS_OPENING
                   [] pc = "u233" ->
                        IF OpenDone(time_passed) THEN STATUS_OPEN ELSE _status
                   [] pc = "u241" ->
                        IF StillClosing(time_passed) THEN _status ELSE STATUS_LOCKING
                   [] pc = "u246" ->
                        IF LockDone(time_passed) THEN STATUS_LOCKED ELSE _status
           pos == CASE pc = "u228" ->
                        IF StillUnlocking(time_passed) THEN PosUnlocking(time_passed)
                        ELSE _position
                    [] pc = "u233" ->
                        IF OpenDone(time_passed) THEN Pos(100)
                        ELSE PosOpening(time_passed)
                    [] pc = "u241" ->
                        IF StillClosing(time_passed) THEN PosClosing(time_passed)
                        ELSE _position
                    [] pc = "u246" ->
                        IF LockDone(time_passed) THEN Pos(0)
                        ELSE PosLocking(time_passed)
       IN  /\ _status' = st
           /\ _position' = pos
           /\ IF pc = "u246"
              THEN Return(t, th[t], ReadResult(th[t].op, st, pos))
              ELSE Goto(t, th[t], CASE pc = "u228" -> "u232" [] pc = "u233" -> "u240"
                                    [] pc = "u241" -> "u245")
    /\ UNCHANGED <<_connection, _busy, device, version, _timestamp, now, env>>

\* ---- time.time() moves on to the next instant
Tick ==
    /\ now < env.horizon
    /\ now' = CHOOSE i \in Instants(env.horizon) :
                 i > now /\ \A j \in Instants(env.horizon) : j > now => i <= j
    /\ ret' = [t \in Threads |-> NoRet]
    /\ UNCHANGED <<_connection, _busy, device, version, _status, _position,
                   _timestamp, th, lastOp, stopped, env>>

Next ==
    \/ Tick
    \/ \E t \in Threads :
         \/ \E p \in SeedPositions : set_position(t, p)
         \/ connect(t) \/ disconnect(t)
         \/ open(t) \/ stop(t) \/ close(t)
         \/ raw_status(t) \/ sync_status(t) \/ status(t) \/ position(t)
         \/ Connect98(t) \/ Connect102(t) \/ Connect110(t) \/ Connect115(t)
         \/ Send143(t) \/ Send147(t) \/ Send150(t) \/ Send155(t) \/ Send164(t)
         \/ Open258(t) \/ Stop276(t) \/ Close288(t) \/ RawStatus306(t)
         \/ Sync314(t) \/ Sync316(t) \/ Sync319(t)
         \/ Update217(t) \/ UpdateTest(t) \/ UpdateBody(t)

\* One caller, unreliable link and device.
Spec == Init /\ [][Next]_vars
\* One caller, working link and device, the whole time span of a motion.
SpecTimed == InitTimed /\ [][Next]_vars
\* Two callers.
SpecConc == InitConc /\ [][Next]_vars

\* ================================================================ claims
\* A caller is in flight between the assignment of line 150 and the release
\* of line 199.
InFlight(t) == th[t].pc \in {"s155", "s164"}

\* C1: at most one caller is ever between acquiring the busy flag and
\* releasing it, so the transport operations of two commands never interleave.
C1_OneCommandInFlight == Cardinality({t \in Threads : InFlight(t)}) <= 1

C3_NoUncaughtError ==
    \A t \in Threads : ret[t].kind = "raise" => ret[t].op = "set_position"

\* C4: the stored position and every value position() returns lie in
\* [0.0, 100.0].
C4_PositionInRange ==
    /\ Pos(0) <= _position /\ _position <= Pos(100)
    /\ \A t \in Threads :
         (ret[t].op = "position" /\ ret[t].kind = "return")
            => (Pos(0) <= ret[t].val /\ ret[t].val <= Pos(100))

\* C5: the timestamp is set if and only if the status is a moving phase.
C5_TimestampIffMoving == (_timestamp # None) <=> (_status \in Moving)

\* C6: Locked implies position 0.0 and Open implies position 100.0.
C6_EndpointPositions ==
    /\ _status = STATUS_LOCKED => _position = Pos(0)
    /\ _status = STATUS_OPEN => _position = Pos(100)

\* The status set_position derives from a position in percent.
SeedStatus(p) ==
    IF p = 0 THEN STATUS_LOCKED ELSE IF p = 100 THEN STATUS_OPEN ELSE STATUS_STOPPED

C7_Seeded ==
    /\ \A t \in Threads :
         ret[t].op = "set_position" => (ret[t].wrote = <<>> /\ ret[t].io = <<>>)
    /\ \A p \in SeedPositions :
         lastOp = <<"set_position", p>> =>
            /\ 0 <= p /\ p <= 100
            /\ _position = Pos(p)
            /\ _status = SeedStatus(p)
            /\ \A t \in Threads :
                 /\ ret[t].op = "position"
                       => (ret[t].kind = "return" /\ ret[t].val = Pos(p))
                 /\ ret[t].op = "status"
                       => (ret[t].kind = "return" /\ ret[t].val = SeedStatus(p))

C7_Step ==
    \A t \in Threads, p \in SeedPositions :
       set_position(t, p) =>
          /\ UNCHANGED <<_connection, _busy, _timestamp, th>>
          /\ (0 <= p /\ p <= 100)
                => (ret'[t].kind = "return" /\ lastOp' = <<"set_position", p>>)
          /\ ~(0 <= p /\ p <= 100)
                => (ret'[t].kind = "raise" /\ UNCHANGED <<_status, _position>>)

\* C7: after set_position(p) with 0 <= p <= 100, position() returns p and
\* status() returns Locked, Open or Stopped for p = 0, p = 100 or any other p,
\* whatever time has passed; set_position performs no transport operation and
\* leaves the busy flag and the connection alone; a p outside [0, 100] is
\* rejected with status and position unchanged.
C7_SetPosition == []C7_Seeded /\ [][C7_Step]_vars

\* C7 witness: seeded to 50, time has moved on, position() returned 50.
C7_Witness ==
    /\ lastOp = <<"set_position", 50>>
    /\ now > 0
    /\ ret[1].op = "position" /\ ret[1].kind = "return" /\ ret[1].val = Pos(50)

\* C8: after open() from Locked got code 200 the status is Unlocking and the
\* timestamp is the time of the call; as long as no other state-changing
\* operation runs, status() read at elapsed time e returns Unlocking for
\* e < 5, Opening for 5 <= e <= 47 and Open for e > 47, where position() returns
\* 100.0.
C8_OpenFromLocked ==
    lastOp = <<"open">> =>
       /\ _timestamp # None
       /\ \A t \in Threads :
            /\ ret[t].op = "open"
                  => (_status = STATUS_UNLOCKING /\ _timestamp = Some(ret[t].at))
            /\ (ret[t].op = "status" /\ _timestamp # None)
                  => /\ ret[t].kind = "return"
                     /\ LET e == ret[t].at - _timestamp[1] IN
                          /\ ret[t].val = IF e < 5 THEN STATUS_UNLOCKING
                                          ELSE IF e <= 47 THEN STATUS_OPENING
                                          ELSE STATUS_OPEN
                          /\ e > 47 => _position = Pos(100)
            /\ (ret[t].op = "position" /\ _timestamp # None
                   /\ ret[t].at - _timestamp[1] > 47)
                  => (ret[t].kind = "return" /\ ret[t].val = Pos(100))

\* C8 witness: a status() read more than 47 s after the open() returned Open.
C8_Witness ==
    /\ lastOp = <<"open">> /\ _timestamp # None
    /\ ret[1].op = "status" /\ ret[1].kind = "return"
    /\ ret[1].at - _timestamp[1] > 47
    /\ ret[1].val = STATUS_OPEN /\ _position = Pos(100)

\* C9: after close() from Open got code 200 the status is Closing and the
\* timestamp is the time of the call; as long as no other state-changing
\* operation runs, status() read at elapsed time e returns Closing for
\* e < 42, Locking for 42 <= e <= 58 and Locked for e > 58, where position()
\* returns 0.0.
C9_CloseFromOpen ==
    lastOp = <<"close">> =>
       /\ _timestamp # None
       /\ \A t \in Threads :
            /\ ret[t].op = "close"
                  => (_status = STATUS_CLOSING /\ _timestamp = Some(ret[t].at))
            /\ (ret[t].op = "status" /\ _timestamp # None)
                  => /\ ret[t].kind = "return"
                     /\ LET e == ret[t].at - _timestamp[1] IN
                          /\ ret[t].val = IF e < 42 THEN STATUS_CLOSING
                                          ELSE IF e <= 58 THEN STATUS_LOCKING
                                          ELSE STATUS_LOCKED
                          /\ e > 58 => _position = Pos(0)
            /\ (ret[t].op = "position" /\ _timestamp # None
                   /\ ret[t].at - _timestamp[1] > 58)
                  => (ret[t].kind = "return" /\ ret[t].val = Pos(0))

\* C9 witness: a status() read more than 58 s after the close() returned
\* Locked.
C9_Witness ==
    /\ lastOp = <<"close">> /\ _timestamp # None
    /\ ret[1].op = "status" /\ ret[1].kind = "return"
    /\ ret[1].at - _timestamp[1] > 58
    /\ ret[1].val = STATUS_LOCKED /\ _position = Pos(0)

\* The lines of a reply carry a numeric status code: text that decodes, the
\* echo, then a line that starts with a number.
HasNumericCode(command, raw) ==
    /\ \A i \in DOMAIN raw : Decodable(raw[i])
    /\ Len(raw) >= 2
    /\ Strip(raw[1]) = <<command>>
    /\ Strip(raw[2]) # <<>>
    /\ ParseInt(<<Strip(raw[2])[1]>>) # None

\* The exchange io did not yield a raw status.
Unreadable(io) ==
    /\ io # <<>>
    /\ \/ io[1] \in {"unavailable", "exception"}
       \/ io[1] = "lines" /\ ~HasNumericCode("STATUS", io[2])

\* C10: when sync_status() cannot read the raw status (transport unavailable,
\* empty response, echo mismatch, decode error, no numeric code) the status
\* after the call is Disconnected; when no STATUS command was sent at all
\* (the reconnect failed) the status is Disconnected as well.
C10_UnreadableIsDisconnected ==
    \A t \in Threads :
       ret[t].op = "sync_status" =>
          /\ Unreadable(ret[t].io) => _status = STATUS_DISCONNECTED
          /\ ret[t].wrote = <<>> => _status = STATUS_DISCONNECTED

\* The raw code raw_status() hands back for the exchange io: None when the
\* transport gave no lines or the response carries no code.
RawCodeOf(io) ==
    IF io = <<>> THEN None
    ELSE IF io[1] # "lines" THEN None
    ELSE _split_response(SendCommandResult("STATUS", io[2])).code

C11_After ==
    \A t \in Threads :
       (ret[t].op = "sync_status" /\ RawCodeOf(ret[t].io) = Some(RAW_STATUS_STRONG_LOCKED))
          => (_status = STATUS_LOCKED /\ _position = Pos(0))

C11_Step ==
    \A t \in Threads :
       (At(t, "y319") /\ th'[t] # th[t]) =>
          LET code == th[t].rv[1] IN
            /\ code = Some(RAW_STATUS_STRONG_LOCKED)
                  => (_status' = STATUS_LOCKED /\ _position' = Pos(0))
            /\ (code = Some(RAW_STATUS_UNLOCKED) /\ _status = STATUS_LOCKED)
                  => (_status' = STATUS_OPEN /\ _position' = Pos(100))
            /\ (/\ code # None
                /\ code # Some(RAW_STATUS_STRONG_LOCKED)
                /\ ~(code = Some(RAW_STATUS_UNLOCKED) /\ _status = STATUS_LOCKED))
                  => UNCHANGED <<_status, _position, _timestamp>>

C12_DisconnectedAfterDisconnect ==
    \A t \in Threads :
       ret[t].op = "disconnect" =>
          /\ ret[t].kind = "return" /\ ret[t].val = TRUE
          /\ _connection = None
          /\ _status = STATUS_DISCONNECTED

C13_Step ==
    /\ \A t \in Threads :
         (th[t].op = "stop" /\ th'[t] # th[t]) => _status' = _status
    /\ (stopped /\ stopped') => (_position' = _position /\ _status' = _status)

\* C13: stop() does not alter the presumed status; after stop() returned True
\* in a moving phase, and until another operation sets the state, the
\* position estimate stays at the value computed last and the status does not
\* move on to another phase.
C13_StopFreezes == [][C13_Step]_vars

C14_After ==
    \A t \in Threads :
       (ret[t].op = "connect" /\ ret[t].kind = "return") =>
          (ret[t].val = TRUE =>
             IF RawCodeOf(ret[t].io) \in {Some(RAW_STATUS_STRONG_LOCKED),
                                          Some(RAW_STATUS_WEAK_LOCKED)}
             THEN _status = STATUS_LOCKED /\ _position = Pos(0)
             ELSE _status = STATUS_OPEN /\ _position = Pos(100))

\* No step of a connect() call other than the one that returns True touches
\* status or position.
C14_Step ==
    \A t \in Threads :
       (/\ th[t].op = "connect"
        /\ ~(ret'[t].op = "connect" /\ ret'[t].kind = "return" /\ ret'[t].val = TRUE))
          => UNCHANGED <<_status, _position>>

AfterSend == {"o258", "p276", "c288", "r306", "n102", "n110"}

\* What the claim expects of _send_command for the lines raw read after
\* command was written.
ExpectedResponse(command, raw) ==
    LET lines == [i \in 1..Len(raw) |-> Strip(raw[i])] IN
    IF Len(lines) = 0 THEN None
    ELSE IF lines[1] # <<Upper(command)>> THEN None
    ELSE IF \A i \in 2..Len(lines) : lines[i] = <<>> THEN None
    ELSE Some(Join(Tail(lines)))

\* C15: for lines that decode, _send_command returns the lines after the
\* first one joined by the line separator if the first line is the
\* upper-cased command, and None when there is no line, when the first line
\* differs, and when all the lines after the echo are empty, be there zero,
\* one or several of them.
C15_SendCommandResult ==
    \A t \in Threads :
       (/\ th[t].pc \in AfterSend
        /\ th[t].io # <<>>
        /\ th[t].io[1] = "lines"
        /\ \A i \in DOMAIN th[t].io[2] : Decodable(th[t].io[2][i]))
          => th[t].rv = ExpectedResponse(th[t].command, th[t].io[2])

\* What the claim expects of _split_response.
ExpectedSplit(response) ==
    IF response = None THEN <<None, None>>
    ELSE LET parts == Split(response[1]) IN
         IF parts # <<>> /\ ParseInt(parts[1]) # None
         THEN <<ParseInt(parts[1]), Some(IF Len(parts) = 2 THEN parts[2] ELSE <<>>)>>
         ELSE <<None, response>>

\* C16: _split_response never fails; it gives (code, rest) when the first
\* token of the response is an integer, with an empty rest when nothing
\* follows the code, (None, response) when the first token is no integer and
\* (None, None) for no response.  Seen through raw_status(), which returns
\* the pair as it is.
C16_SplitResponse ==
    \A t \in Threads :
       (ret[t].op = "raw_status" /\ ret[t].io # <<>>) =>
          /\ ret[t].kind = "return"
          /\ ret[t].val = ExpectedSplit(IF ret[t].io[1] = "lines"
                                        THEN SendCommandResult("STATUS", ret[t].io[2])
                                        ELSE None)

Identity == {"DEVICE", "VERSION"}

\* C17: once device and version are both stored, no operation sends DEVICE
\* or VERSION again, and none changes what is stored.
C17_FetchedOnce ==
    /\ [](\A t \in Threads :
             (th[t].pc = "s164" /\ th[t].command \in Identity)
                => (device = None \/ version = None))
    /\ [][(device # None /\ version # None) => UNCHANGED <<device, version>>]_vars

C17_Inv ==
    \A t \in Threads :
       /\ ret[t].op \notin {"", "connect", "sync_status"}
             => \A i \in DOMAIN ret[t].wrote : ret[t].wrote[i] \notin Identity
       /\ (ret[t].op = "connect" /\ ret[t].kind = "return")
             => (ret[t].val = TRUE
                    => (ret[t].wrote # <<>> /\ ret[t].wrote[1] = "DEVICE"))
       /\ (th[t].op = "sync_status" /\ th[t].command \in Identity)
             => _status = STATUS_DISCONNECTED

C17_Step ==
    (device' # device \/ version' # version)
       => \E t \in Threads : th[t].pc \in {"n102", "n110"}

\* C17 (amended): the identity of the device is fetched at every connect():
\* DEVICE and VERSION are sent only inside connect(), called by the user or by
\* sync_status() while the presumed status is Disconnected; every connect()
\* that returns True has sent DEVICE first, also when device and version were
\* stored before; the stored device and version change only where connect()
\* handles the two responses.
C17_FetchedAtEachConnect == []C17_Inv /\ [][C17_Step]_vars

\* C17 witness: DEVICE has been written again while device and version were
\* both stored already.
C17_Witness ==
    /\ th[1].pc = "s164" /\ th[1].command = "DEVICE"
    /\ device # None /\ version # None

\* No step of an open(), close() or stop() call other than the one that
\* returns True touches status, position or timestamp.
C18_Step ==
    \A t \in Threads :
       (/\ th[t].op \in {"open", "close", "stop"}
        /\ ~(ret'[t].op = th[t].op /\ ret'[t].kind = "return" /\ ret'[t].val = TRUE))
          => UNCHANGED <<_status, _position, _timestamp>>

Failed(t) ==
    /\ ret[t].op \in {"open", "close", "stop"}
    /\ ret[t].kind = "return"
    /\ ret[t].val = FALSE

\* C18: when open(), close() or stop() returns False, status, position and
\* timestamp are what they were before the call, the busy flag is released
\* and exactly one command was written.
C18_FailedCommand ==
    /\ [](\A t \in Threads : Failed(t) => (_busy = FALSE /\ Len(ret[t].wrote) = 1))
    /\ [][C18_Step]_vars

\* C18 (amended): when open(), close() or stop() returns False, status,
\* position and timestamp are what they were before the call, the busy flag
\* is released and at most one command was written: exactly one when the
\* transport gave lines back, none when the transport was unavailable.
C18_FailedCommandAtMostOnce ==
    /\ [](\A t \in Threads :
             Failed(t) =>
                /\ _busy = FALSE
                /\ Len(ret[t].wrote) <= 1
                /\ ret[t].io # <<>>
                /\ ret[t].io[1] = "lines" => Len(ret[t].wrote) = 1
                /\ ret[t].io[1] = "unavailable" => ret[t].wrote = <<>>)
    /\ [][C18_Step]_vars

\* C18 witness: open() from Locked was answered 502, returned False and left
\* Locked at 0.0 with one command written.
C18_Witness ==
    /\ ret[1].op = "open" /\ ret[1].kind = "return" /\ ret[1].val = FALSE
    /\ ret[1].io = <<"lines", Reply("notimpl", "OPEN")>>
    /\ ret[1].wrote = <<"OPEN">>
    /\ _status = STATUS_LOCKED /\ _position = Pos(0) /\ _timestamp = None
    /\ _busy = FALSE

\* C19: the position estimate, which is what position() returns, never goes
\* down after open() from Locked and never goes up after close() from Open,
\* as long as no other state-changing operation runs, across the changes of
\* phase as well.
C19_Monotonic ==
    [][/\ (lastOp = <<"open">> /\ lastOp' = <<"open">>) => _position' >= _position
       /\ (lastOp = <<"close">> /\ lastOp' = <<"close">>) => _position' <= _position]_vars

\* C20: while a command is in flight the connection handle is there and no
\* step closes or clears it.
C20_HandleKept ==
    /\ [](\A t \in Threads : InFlight(t) => _connection # None)
    /\ [][(\E t \in Threads : InFlight(t)) => _connection' = _connection]_vars

====
